---------------------------- MODULE Spec2Model ----------------------------
(***************************************************************************)
(* The prediction service of src/model/ml_service.py: the lazily loaded,   *)
(* process-wide model handle (load_model), the two request handlers        *)
(* (predict, predict_single) with their validation, image decoding, input  *)
(* binding, output extraction and weight adjustment, and the eager         *)
(* pre-load of the __main__ block.                                         *)
(*                                                                         *)
(* Python values are modelled by what the handlers do with them:           *)
(*   - a float is an exact rational [k |-> "fin", n, d] in lowest terms,   *)
(*     or NaN or an infinity; comparisons with NaN are false, as in        *)
(*     Python; division by zero raises ZeroDivisionError;                  *)
(*   - a call that may raise returns [ok |-> TRUE, v |-> value] or         *)
(*     [ok |-> FALSE, exc |-> exception class, msg |-> str(e)];            *)
(*   - an optional value (None or x) is the sequence <<>> or <<x>>.        *)
(*                                                                         *)
(* The handlers share nothing but the global model handle.  Spec lets      *)
(* requests arrive one at a time and draws them, and the artifact on disk, *)
(* from the full sets: it is the specification of what one handler does.   *)
(* SpecOverlapping lets requests overlap in the threads of the server      *)
(* (app.run serves each request in its own thread): it is the              *)
(* specification of what happens to the shared handle.                     *)
(***************************************************************************)
EXTENDS Integers, Sequences, FiniteSets, TLC

\* Number of request-handling threads of the threaded development server
\* that may be in flight at once.
NumThreads == 2

\* Number of distinct decodable images a client may upload.
NumImages == 2

Threads == 1..NumThreads

(***************************************************************************)
(* Floats.                                                                 *)
(***************************************************************************)
RECURSIVE Gcd(_, _)
Gcd(a, b) == IF b = 0 THEN a ELSE Gcd(b, a % b)

Abs(x) == IF x < 0 THEN -x ELSE x

\* The rational n/d (d # 0) in lowest terms with a positive denominator.
Fin(n, d) ==
    LET g == Gcd(Abs(n), Abs(d))
        s == IF d < 0 THEN -1 ELSE 1
    IN  [k |-> "fin", n |-> (s * n) \div g, d |-> (s * d) \div g]

Num(n) == Fin(n, 1)
NaN == [k |-> "nan", n |-> 0, d |-> 1]
PosInf == [k |-> "inf", n |-> 1, d |-> 1]
NegInf == [k |-> "ninf", n |-> -1, d |-> 1]

IsNaN(x) == x.k = "nan"
IsFin(x) == x.k = "fin"
IsZero(x) == x.k = "fin" /\ x.n = 0

\* Python's a <= b on floats: false when either side is NaN.
LeqF(a, b) ==
    /\ ~IsNaN(a)
    /\ ~IsNaN(b)
    /\ \/ a.k = "ninf"
       \/ b.k = "inf"
       \/ (a.k = "fin" /\ b.k = "fin" /\ a.n * b.d <= b.n * a.d)

\* Python's a > b on floats: false when either side is NaN.
GtF(a, b) == ~IsNaN(a) /\ ~IsNaN(b) /\ ~LeqF(a, b)

Ok(v) == [ok |-> TRUE, v |-> v]
Raise(exc, msg) == [ok |-> FALSE, exc |-> exc, msg |-> msg]

\* Python's a / b on floats: a zero divisor raises, whatever the dividend.
DivF(a, b) ==
    IF IsZero(b) THEN Raise("ZeroDivisionError", "float division by zero")
    ELSE IF IsNaN(a) \/ IsNaN(b) THEN Ok(NaN)
    ELSE IF IsFin(a) /\ IsFin(b) THEN Ok(Fin(a.n * b.d, a.d * b.n))
    ELSE IF IsFin(a) THEN Ok(Num(0))
    ELSE IF ~IsFin(b) THEN Ok(NaN)
    ELSE Ok(IF (a.k = "inf") = (b.n > 0) THEN PosInf ELSE NegInf)

\* Python's a * b on floats (common factors are cancelled before multiplying).
MulF(a, b) ==
    IF IsNaN(a) \/ IsNaN(b) THEN NaN
    ELSE IF IsFin(a) /\ IsFin(b)
    THEN LET g1 == Gcd(Abs(a.n), b.d)
             g2 == Gcd(Abs(b.n), a.d)
         IN  Fin((a.n \div g1) * (b.n \div g2), (a.d \div g2) * (b.d \div g1))
    ELSE IF IsZero(a) \/ IsZero(b) THEN NaN
    ELSE IF ((a.k = "inf") \/ (a.k = "fin" /\ a.n > 0))
             = ((b.k = "inf") \/ (b.k = "fin" /\ b.n > 0))
         THEN PosInf ELSE NegInf

\* Python's a - b on finite floats or NaN.
SubF(a, b) ==
    IF IsFin(a) /\ IsFin(b) THEN Fin(a.n * b.d - b.n * a.d, a.d * b.d) ELSE NaN


(***************************************************************************)
(* Python containers as the extraction code indexes them.                  *)
(***************************************************************************)
PyNum(x) == [ty |-> "num", x |-> x]
PyArr(xs) == [ty |-> "ndarray", xs |-> xs]
PyList(xs) == [ty |-> "list", xs |-> xs]
\* A dict, its keys held in sorted order (the order tf.nest.flatten uses).
PyDict(ks, xs) == [ty |-> "dict", ks |-> ks, xs |-> xs]

\* v[i] for an integer i >= 0.
GetIdx(v, i) ==
    CASE v.ty = "list" ->
            IF i < Len(v.xs) THEN Ok(v.xs[i + 1])
            ELSE Raise("IndexError", "list index out of range")
      [] v.ty = "ndarray" ->
            IF i < Len(v.xs) THEN Ok(v.xs[i + 1])
            ELSE Raise("IndexError", "index out of bounds")
      [] v.ty = "num" -> Raise("IndexError", "invalid index to scalar variable.")
      [] v.ty = "dict" -> Raise("KeyError", "0")

\* v[s] for a string s.
GetKey(v, s) ==
    CASE v.ty = "dict" ->
            IF \E j \in 1..Len(v.ks) : v.ks[j] = s
            THEN Ok(v.xs[CHOOSE j \in 1..Len(v.ks) : v.ks[j] = s])
            ELSE Raise("KeyError", s)
      [] v.ty = "list" -> Raise("TypeError", "list indices must be integers or slices, not str")
      [] v.ty = "ndarray" -> Raise("IndexError", "only integers, slices are valid indices")
      [] v.ty = "num" -> Raise("IndexError", "invalid index to scalar variable.")

\* The number of scalars an array holds.
RECURSIVE Size(_)
Size(v) ==
    IF v.ty = "num" THEN 1
    ELSE IF Len(v.xs) = 0 THEN 0
    ELSE Len(v.xs) * Size(v.xs[1])

\* float(v): a scalar, or an array holding exactly one scalar.
RECURSIVE ToFloat(_)
ToFloat(v) ==
    CASE v.ty = "num" -> Ok(v.x)
      [] v.ty = "ndarray" ->
            IF Size(v) = 1 THEN ToFloat(v.xs[1])
            ELSE Raise("TypeError", "only length-1 arrays can be converted to Python scalars")
      [] v.ty = "list" -> Raise("TypeError", "float() argument must be a string or a real number, not 'list'")
      [] v.ty = "dict" -> Raise("TypeError", "float() argument must be a string or a real number, not 'dict'")

\* tf.nest.flatten: the leaves of nested lists and dicts, arrays being leaves.
RECURSIVE Flatten(_)
RECURSIVE FlattenSeq(_)
FlattenSeq(xs) ==
    IF Len(xs) = 0 THEN <<>> ELSE Flatten(Head(xs)) \o FlattenSeq(Tail(xs))
Flatten(v) ==
    IF v.ty \in {"list", "dict"} THEN FlattenSeq(v.xs) ELSE <<v>>

(***************************************************************************)
(* Requests.  A multipart field is absent (<<>>) or holds one file         *)
(* [filename, data]; the form field height is absent or holds one text.    *)
(* File data is 0 (an empty buffer), -1 (bytes that are no image) or       *)
(* 1..NumImages (a decodable image).                                       *)
(***************************************************************************)
EmptyData == 0
CorruptData == -1
Images == 1..NumImages

FileFields ==
    {<<>>, <<[filename |-> "", data |-> EmptyData]>>}
      \cup {<<[filename |-> "photo.jpg", data |-> b]>> :
              b \in {EmptyData, CorruptData} \cup Images}

HeightTexts == {"abc", "0", "150", "300", "301", "nan"}
HeightFields == {<<>>} \cup {<<s>> : s \in HeightTexts}

NoFile == <<>>

PredictRequests ==
    [endpoint : {"predict"}, front_image : FileFields, side_image : FileFields,
     image : {NoFile}, height : HeightFields]

SingleRequests ==
    [endpoint : {"predict_single"}, front_image : {NoFile}, side_image : {NoFile},
     image : FileFields, height : HeightFields]

Requests == PredictRequests \cup SingleRequests

\* Python's float(s) on the texts a client may send.
ParseFloat(s) ==
    CASE s = "0" -> Ok(Num(0))
      [] s = "150" -> Ok(Num(150))
      [] s = "300" -> Ok(Num(300))
      [] s = "301" -> Ok(Num(301))
      [] s = "nan" -> Ok(NaN)
      [] s = "inf" -> Ok(PosInf)
      [] OTHER -> Raise("ValueError", "could not convert string to float")

Response(status, body) == [status |-> status, body |-> body]
ErrorResponse(status, msg) == Response(status, [error |-> msg])

\* The optional height of a request: Ok(<<>>) when the field is absent,
\* Ok(<<h>>) when it parses to an accepted h, and the 400 response otherwise.
ParseHeight(form) ==
    IF form.height = <<>> THEN Ok(<<>>)
    ELSE LET p == ParseFloat(form.height[1])
         IN  IF ~p.ok
             THEN Raise("400", "Height must be a valid number in cm")
             ELSE IF LeqF(p.v, Num(0)) \/ GtF(p.v, Num(300))
             THEN Raise("400", "Invalid height value. Please provide a realistic height in cm.")
             ELSE Ok(<<p.v>>)

\* A variant that omits the test of the filenames.
ValidatePredictNoFilenameTest(r) ==
    IF r.front_image = <<>> \/ r.side_image = <<>>
    THEN Raise("400", "Both front and side images are required")
    ELSE ParseHeight(r)

\* The checks predict makes before its try block, in the code's order.
ValidatePredict(r) ==
    IF r.front_image = <<>> \/ r.side_image = <<>>
    THEN Raise("400", "Both front and side images are required")
    ELSE LET h == ParseHeight(r)
         IN  IF ~h.ok THEN h
             ELSE IF r.front_image[1].filename = "" \/ r.side_image[1].filename = ""
             THEN Raise("400", "Both front and side images must be selected")
             ELSE h

\* The checks predict_single makes before its try block, in the code's order.
ValidateSingle(r) ==
    IF r.image = <<>>
    THEN Raise("400", "No image uploaded")
    ELSE LET h == ParseHeight(r)
         IN  IF ~h.ok THEN h
             ELSE IF r.image[1].filename = ""
             THEN Raise("400", "No selected file")
             ELSE h

Validate(r) == IF r.endpoint = "predict" THEN ValidatePredict(r) ELSE ValidateSingle(r)

(***************************************************************************)
(* Image decoding and preprocessing.                                       *)
(***************************************************************************)
\* A variant that makes an image of any bytes that are not empty.
ImDecodeAnyBytes(data) ==
    IF data = EmptyData THEN Ok(<<[pixels |-> 1, order |-> "BGR"]>>)
    ELSE IF data = CorruptData THEN Ok(<<[pixels |-> 1, order |-> "BGR"]>>)
    ELSE Ok(<<[pixels |-> data, order |-> "BGR"]>>)

\* cv2.imdecode: raises on an empty buffer, returns None (<<>>) for bytes that
\* are no image, and the pixel array otherwise.
ImDecode(data) ==
    IF data = EmptyData THEN Raise("cv2.error", "(-215:Assertion failed) !buf.empty() in function 'imdecode_'")
    ELSE IF data = CorruptData THEN Ok(<<>>)
    ELSE Ok(<<[pixels |-> data, order |-> "BGR"]>>)

\* cvtColor, preprocess_image (resize to 224x224, MobileNetV2 scaling) and
\* expand_dims: a batch of one tensor with three channels, determined by the image.
Tensor(img) == [src |-> <<img.pixels>>, channels |-> 3, size |-> 224, batch |-> 1]

\* np.concatenate([a, b], axis=3).
Concatenate(a, b) ==
    [src |-> a.src \o b.src, channels |-> a.channels + b.channels,
     size |-> a.size, batch |-> a.batch]

\* A variant that uses the front image when the side image does not decode.
PreprocessUploadedImagesFrontForSide(front_bytes, side_bytes) ==
    LET f == ImDecode(front_bytes)
    IN  IF ~f.ok THEN [res |-> f, decodes |-> 1]
        ELSE IF f.v = <<>>
        THEN [res |-> Raise("ValueError", "Invalid front image format or corrupted front image data"),
              decodes |-> 1]
        ELSE LET s == ImDecode(side_bytes)
             IN  IF ~s.ok \/ s.v = <<>>
                 THEN [res |-> Ok([front |-> Tensor(f.v[1]), side |-> Tensor(f.v[1])]),
                       decodes |-> 2]
                 ELSE [res |-> Ok([front |-> Tensor(f.v[1]), side |-> Tensor(s.v[1])]),
                       decodes |-> 2]

\* preprocess_uploaded_images: the pair of tensors, or the exception raised;
\* decodes counts the calls of imdecode made.
PreprocessUploadedImages(front_bytes, side_bytes) ==
    LET f == ImDecode(front_bytes)
    IN  IF ~f.ok THEN [res |-> f, decodes |-> 1]
        ELSE IF f.v = <<>>
        THEN [res |-> Raise("ValueError", "Invalid front image format or corrupted front image data"),
              decodes |-> 1]
        ELSE LET s == ImDecode(side_bytes)
             IN  IF ~s.ok THEN [res |-> s, decodes |-> 2]
                 ELSE IF s.v = <<>>
                 THEN [res |-> Raise("ValueError", "Invalid side image format or corrupted side image data"),
                       decodes |-> 2]
                 ELSE [res |-> Ok([front |-> Tensor(f.v[1]), side |-> Tensor(s.v[1])]),
                       decodes |-> 2]

(***************************************************************************)
(* The loaded model.  The inference engine is external: an artifact        *)
(* declares its input slot names and is a deterministic function of the    *)
(* binding it is invoked with.  So that any influence of a bound tensor    *)
(* shows in the result, the height and weight it returns encode the images *)
(* of the binding injectively, unless the artifact returns a fixed height. *)
(***************************************************************************)
Binding(form, slots, tensors) == [form |-> form, slots |-> slots, tensors |-> tensors]
DictBinding(slots, tensors) == Binding("dict", slots, tensors)

RECURSIVE SrcOf(_)
SrcOf(tensors) ==
    IF Len(tensors) = 0 THEN <<>> ELSE Head(tensors).src \o SrcOf(Tail(tensors))

RECURSIVE Encode(_)
Encode(ids) ==
    IF Len(ids) = 0 THEN 0
    ELSE Encode(SubSeq(ids, 1, Len(ids) - 1)) * (NumImages + 1) + ids[Len(ids)]

InputCode(b) == Encode(SrcOf(b.tensors))

Range(f) == {f[i] : i \in DOMAIN f}

\* Whether the binding supplies a tensor of three channels for every declared slot.
Covers(art, b) ==
    /\ \A i \in 1..Len(b.tensors) : b.tensors[i].channels = 3
    /\ CASE b.form = "dict" -> Range(art.inputs) \subseteq Range(b.slots)
         [] b.form = "array" -> Len(art.inputs) = 1
         [] b.form = "list" -> Len(art.inputs) = Len(b.tensors)

\* Whether predict runs on the binding.  Whatever else an engine tolerates
\* (a dict keyed by other names than its slots, a bare array), it raises on a
\* binding that holds another number of tensors than it declares slots.
EngineAccepts(art, b) ==
    /\ Len(b.tensors) = Len(art.inputs)
    /\ CASE art.accepts = "any" -> TRUE
         [] art.accepts = "covering" -> Covers(art, b)
         [] art.accepts = "only_input_layer" -> b.form = "dict" /\ b.slots = <<"input_layer">>
         [] art.accepts = "none" -> FALSE

EngineMessage(b) ==
    CASE b.form = "list" -> "engine: cannot take a list of inputs"
      [] b.form = "array" -> "engine: cannot take a bare array"
      [] b.form = "dict" /\ b.slots = <<"input_layer">> -> "engine: no input named input_layer"
      [] b.form = "dict" /\ Len(b.slots) = 2 -> "engine: missing data for a declared input"
      [] OTHER -> "engine: incompatible input"

Arr11(x) == PyArr(<<PyArr(<<PyNum(x)>>)>>)
Arr1(x) == PyArr(<<PyNum(x)>>)

\* What model.predict returns, by the artifact's output structure.
EngineOutput(art, h, w) ==
    CASE art.out = "list2" -> PyList(<<Arr11(h), Arr11(w)>>)
      [] art.out = "list3" -> PyList(<<Arr11(h), Arr11(w), Arr11(Num(1))>>)
      [] art.out = "list1" -> PyList(<<Arr11(h)>>)
      [] art.out = "list2_flat" -> PyList(<<Arr1(h), Arr1(w)>>)
      [] art.out = "dict" -> PyDict(<<"height", "weight">>, <<Arr11(h), Arr11(w)>>)
      [] art.out = "dict_other_keys" -> PyDict(<<"out_a", "out_b">>, <<Arr11(h), Arr11(w)>>)
      [] art.out = "dict_height_only" -> PyDict(<<"height">>, <<Arr11(h)>>)
      [] art.out = "dict_extra_key" ->
            PyDict(<<"age", "height", "weight">>, <<Arr11(Num(30)), Arr11(h), Arr11(w)>>)
      [] art.out = "array12" -> PyArr(<<PyArr(<<PyNum(h), PyNum(w)>>)>>)
      [] art.out = "array11" -> Arr11(h)

\* loaded_model.predict(binding).
EnginePredict(art, b) ==
    IF ~EngineAccepts(art, b) THEN Raise("ValueError", EngineMessage(b))
    ELSE LET c == InputCode(b)
             h == IF art.fixed = <<>> THEN Num(150 + c) ELSE Num(art.fixed[1])
         IN  Ok(EngineOutput(art, h, Num(50 + 2 * c)))

(***************************************************************************)
(* Input binding (predict: lines 213-262, predict_single: lines 395-436).  *)
(***************************************************************************)
Contains(names, x) == \E i \in 1..Len(names) : names[i] = x

\* A variant whose single conventional slot is fed the side tensor.
SelectBindingPredictSide(names, front, side) ==
    IF Contains(names, "input_layer") /\ Len(names) = 1
    THEN Ok(DictBinding(<<"input_layer">>, <<side>>))
    ELSE IF Contains(names, "front_input") /\ Contains(names, "side_input")
    THEN Ok(DictBinding(<<"front_input", "side_input">>, <<front, side>>))
    ELSE IF Len(names) = 1
    THEN Ok(DictBinding(<<names[1]>>, <<front>>))
    ELSE IF Len(names) = 2 THEN Ok(Binding("list", <<>>, <<front, side>>))
    ELSE Raise("ValueError", "Unsupported number of inputs")

\* A variant whose front/side branch feeds each slot the other tensor.
SelectBindingPredictCrossed(names, front, side) ==
    IF Contains(names, "input_layer") /\ Len(names) = 1
    THEN Ok(DictBinding(<<"input_layer">>, <<front>>))
    ELSE IF Contains(names, "front_input") /\ Contains(names, "side_input")
    THEN Ok(DictBinding(<<"front_input", "side_input">>, <<side, front>>))
    ELSE IF Len(names) = 1
    THEN Ok(DictBinding(<<names[1]>>, <<front>>))
    ELSE IF Len(names) = 2 THEN Ok(Binding("list", <<>>, <<front, side>>))
    ELSE Raise("ValueError", "Unsupported number of inputs")

\* A variant that binds two slots of other names by name, not by position.
SelectBindingPredictNamedPair(names, front, side) ==
    IF Contains(names, "input_layer") /\ Len(names) = 1
    THEN Ok(DictBinding(<<"input_layer">>, <<front>>))
    ELSE IF Contains(names, "front_input") /\ Contains(names, "side_input")
    THEN Ok(DictBinding(<<"front_input", "side_input">>, <<front, side>>))
    ELSE IF Len(names) = 1
    THEN Ok(DictBinding(<<names[1]>>, <<front>>))
    ELSE IF Len(names) = 2 THEN Ok(DictBinding(names, <<front, side>>))
    ELSE Raise("ValueError", "Unsupported number of inputs")

\* The branch of predict's if/elif ladder that runs, as the argument handed to
\* loaded_model.predict, or the ValueError of the last else.
SelectBindingPredict(names, front, side) ==
    IF Contains(names, "input_layer") /\ Len(names) = 1
    THEN Ok(DictBinding(<<"input_layer">>, <<front>>))
    ELSE IF Contains(names, "front_input") /\ Contains(names, "side_input")
    THEN Ok(DictBinding(<<"front_input", "side_input">>, <<front, side>>))
    ELSE IF Len(names) = 1
    THEN Ok(DictBinding(<<names[1]>>, <<front>>))
    ELSE IF Len(names) = 1
    THEN Ok(DictBinding(<<names[1]>>, <<Concatenate(front, side)>>))
    ELSE IF Len(names) = 1 THEN Ok(Binding("array", <<>>, <<front>>))
    ELSE IF Len(names) = 2 THEN Ok(Binding("list", <<>>, <<front, side>>))
    ELSE Raise("ValueError", "Unsupported number of inputs")

\* A variant that hands a single slot of another name the bare array.
SelectBindingSingleBareArray(names, front, side) ==
    IF Contains(names, "input_layer") /\ Len(names) = 1
    THEN Ok(DictBinding(<<"input_layer">>, <<front>>))
    ELSE IF Contains(names, "front_input") /\ Contains(names, "side_input")
    THEN Ok(DictBinding(<<"front_input", "side_input">>, <<front, side>>))
    ELSE IF Len(names) = 1 THEN Ok(Binding("array", <<>>, <<front>>))
    ELSE IF Len(names) = 2 THEN Ok(Binding("list", <<>>, <<front, side>>))
    ELSE Raise("ValueError", "Unsupported number of inputs")

\* The same ladder in predict_single, which has no concatenation branch.
SelectBindingSingle(names, front, side) ==
    IF Contains(names, "input_layer") /\ Len(names) = 1
    THEN Ok(DictBinding(<<"input_layer">>, <<front>>))
    ELSE IF Contains(names, "front_input") /\ Contains(names, "side_input")
    THEN Ok(DictBinding(<<"front_input", "side_input">>, <<front, side>>))
    ELSE IF Len(names) = 1
    THEN Ok(DictBinding(<<names[1]>>, <<front>>))
    ELSE IF Len(names) = 1 THEN Ok(Binding("array", <<>>, <<front>>))
    ELSE IF Len(names) = 2 THEN Ok(Binding("list", <<>>, <<front, side>>))
    ELSE Raise("ValueError", "Unsupported number of inputs")

SelectBinding(endpoint, names, front, side) ==
    IF endpoint = "predict" THEN SelectBindingPredict(names, front, side)
    ELSE SelectBindingSingle(names, front, side)

LastResortBinding(front) == DictBinding(<<"input_layer">>, <<front>>)

\* A variant that surfaces the error of the last resort, not the first error.
InvokeEngineRetryError(art, endpoint, front, side) ==
    LET sel == SelectBinding(endpoint, art.inputs, front, side)
        first == IF sel.ok THEN EnginePredict(art, sel.v) ELSE sel
        firstCalls == IF sel.ok THEN <<sel.v>> ELSE <<>>
    IN  IF first.ok THEN [res |-> first, calls |-> firstCalls]
        ELSE [res |-> EnginePredict(art, LastResortBinding(front)),
              calls |-> Append(firstCalls, LastResortBinding(front))]

\* The outer try/except around the ladder: the selected invocation, and on
\* any exception the last resort, whose failure re-raises the first error.
\* calls lists the arguments the engine was invoked with, in order.
InvokeEngine(art, endpoint, front, side) ==
    LET sel == SelectBinding(endpoint, art.inputs, front, side)
        first == IF sel.ok THEN EnginePredict(art, sel.v) ELSE sel
        firstCalls == IF sel.ok THEN <<sel.v>> ELSE <<>>
    IN  IF first.ok THEN [res |-> first, calls |-> firstCalls]
        ELSE LET retry == EnginePredict(art, LastResortBinding(front))
             IN  [res |-> IF retry.ok THEN retry ELSE first,
                  calls |-> Append(firstCalls, LastResortBinding(front))]

(***************************************************************************)
(* Output extraction (predict: lines 267-311, predict_single: 438-471).    *)
(***************************************************************************)
\* x[0] and float(x) for the result x of an earlier step, whose exception is kept.
First(x) == IF x.ok THEN GetIdx(x.v, 0) ELSE x
AsFloat(x) == IF x.ok THEN ToFloat(x.v) ELSE x

\* float(p[i][0][0]) and float(p[i][0]) for an integer i, float(p[s][0][0]) for a key s.
Item3(p, i) == AsFloat(First(First(GetIdx(p, i))))
Item2(p, i) == AsFloat(First(GetIdx(p, i)))
Key3(p, s) == AsFloat(First(First(GetKey(p, s))))

\* Both values, or the first exception raised while computing them in order.
Pair(h, w) ==
    IF ~h.ok THEN h ELSE IF ~w.ok THEN w
    ELSE Ok([predicted_height |-> h.v, predicted_weight |-> w.v])

\* A variant that knows the list format only.
ExtractStandardListOnly(p) ==
    IF p.ty = "list" THEN Pair(Item3(p, 0), Item3(p, 1))
    ELSE Raise("KeyError", "height")

\* The body of the inner try: the list format, else the dictionary format.
ExtractStandard(p) ==
    IF p.ty = "list" THEN Pair(Item3(p, 0), Item3(p, 1))
    ELSE Pair(Key3(p, "height"), Key3(p, "weight"))

\* A variant whose height range excludes its two bounds.
SingleValueEstimateOpenRange(value) ==
    IF GtF(value, Num(100)) /\ GtF(Num(220), value)
    THEN [predicted_height |-> value,
          predicted_weight |-> MulF(SubF(value, Num(100)), Fin(9, 10))]
    ELSE [predicted_height |-> Num(170), predicted_weight |-> value]

\* The single-output estimate: a value in [100, 220] is a height.
SingleValueEstimate(value) ==
    IF LeqF(Num(100), value) /\ LeqF(value, Num(220))
    THEN [predicted_height |-> value,
          predicted_weight |-> MulF(SubF(value, Num(100)), Fin(9, 10))]
    ELSE [predicted_height |-> Num(170), predicted_weight |-> value]

\* The body of the except clause; what it raises leaves the handler's try.
ExtractFallback(p) ==
    IF p.ty = "list" THEN Pair(Item2(p, 0), Item2(p, 1))
    ELSE LET flat == Flatten(p)
         IN  IF Len(flat) >= 2 THEN Pair(ToFloat(flat[1]), ToFloat(flat[2]))
             ELSE IF Len(flat) = 0 THEN Raise("IndexError", "list index out of range")
             ELSE LET value == ToFloat(flat[1])
                  IN  IF value.ok THEN Ok(SingleValueEstimate(value.v)) ELSE value

ExtractPredictions(p) ==
    LET std == ExtractStandard(p)
    IN  IF std.ok THEN std
        ELSE IF std.exc \in {"IndexError", "KeyError", "TypeError"} THEN ExtractFallback(p)
        ELSE std

(***************************************************************************)
(* Weight adjustment and the response.                                     *)
(***************************************************************************)
\* A variant that scales by the height ratio itself, not by its square.
AdjustComputationLinear(predicted_weight, user_height, predicted_height) ==
    IF LeqF(user_height, Num(0)) THEN Ok(predicted_weight)
    ELSE LET height_ratio == DivF(user_height, predicted_height)
         IN  IF ~height_ratio.ok THEN height_ratio
             ELSE Ok(MulF(predicted_weight, height_ratio.v))

\* Lines 139-152: the body of adjust_weight_prediction's try block.
AdjustComputation(predicted_weight, user_height, predicted_height) ==
    IF LeqF(user_height, Num(0)) THEN Ok(predicted_weight)
    ELSE LET height_ratio == DivF(user_height, predicted_height)
         IN  IF ~height_ratio.ok THEN height_ratio
             ELSE LET adjustment_factor == MulF(height_ratio.v, height_ratio.v)
                  IN  Ok(MulF(predicted_weight, adjustment_factor))

\* A variant that lets the exception of the computation escape.
AdjustWeightPredictionUncaught(predicted_weight, user_height, predicted_height) ==
    AdjustComputation(predicted_weight, user_height, predicted_height)

\* adjust_weight_prediction: every exception of the computation is caught and
\* answered with the prediction as it was.
AdjustWeightPrediction(predicted_weight, user_height, predicted_height) ==
    LET r == AdjustComputation(predicted_weight, user_height, predicted_height)
    IN  IF r.ok THEN r ELSE Ok(predicted_weight)

\* A variant with the two dual-image confidences exchanged.
ConfidencePredictSwapped(user_height) ==
    IF user_height # <<>> THEN Fin(90, 100) ELSE Fin(92, 100)

ConfidencePredict(user_height) ==
    IF user_height # <<>> THEN Fin(92, 100) ELSE Fin(90, 100)

ConfidenceSingle(user_height) ==
    IF user_height # <<>> THEN Fin(80, 100) ELSE Fin(75, 100)

Confidence(endpoint, user_height) ==
    IF endpoint = "predict" THEN ConfidencePredict(user_height)
    ELSE ConfidenceSingle(user_height)

\* A variant that reports the final height as the predicted height.
BuildBodyFinalAsPredicted(final_height, final_weight, predicted_height, confidence) ==
    [height |-> final_height, weight |-> final_weight,
     predicted_height |-> final_height, confidence |-> confidence]

\* Lines 326-331 and 486-491: the JSON body of a prediction.
BuildBody(final_height, final_weight, predicted_height, confidence) ==
    [height |-> final_height, weight |-> final_weight,
     predicted_height |-> predicted_height, confidence |-> confidence]

\* Lines 313-331 and 473-491: the 200 response built from the extracted pair;
\* an exception leaves the handler's try block.
BuildResponse(endpoint, user_height, e) ==
    LET final_height == IF user_height # <<>> THEN user_height[1] ELSE e.predicted_height
        final_weight == IF user_height # <<>>
                        THEN AdjustWeightPrediction(e.predicted_weight, user_height[1],
                                                    e.predicted_height)
                        ELSE Ok(e.predicted_weight)
    IN  IF ~final_weight.ok THEN ErrorResponse(500, final_weight.msg)
        ELSE Response(200, BuildBody(final_height, final_weight.v, e.predicted_height,
                                     Confidence(endpoint, user_height)))

\* The handler from the engine invocation to its return, the outer except
\* turning every exception into a 500 response carrying str(e).
HandleInference(art, endpoint, user_height, front, side) ==
    LET inv == InvokeEngine(art, endpoint, front, side)
        ext == IF inv.res.ok THEN ExtractPredictions(inv.res.v) ELSE inv.res
    IN  [calls |-> inv.calls,
         raw |-> IF inv.res.ok THEN <<inv.res.v>> ELSE <<>>,
         extracted |-> IF ext.ok THEN <<ext.v>> ELSE <<>>,
         resp |-> IF ext.ok THEN BuildResponse(endpoint, user_height, ext.v)
                  ELSE ErrorResponse(500, ext.msg)]

(***************************************************************************)
(* The process.                                                            *)
(***************************************************************************)
VARIABLES
    model,      \* the module global: <<>> (None) or <<handle>>
    loads,      \* number of tf.keras.models.load_model calls that returned a model
    load_failed,
                \* history: whether a call of load_model has raised so far
    exists,     \* which of the two model files os.path.exists finds
    artifact,   \* the trained model both files would hold
    client,     \* how the clients send: one request at a time, or overlapping
    pcMain,     \* "start" before the server accepts requests, then "serving"
    pc,         \* per thread: idle, load, loading, infer, done
    req,        \* per thread: the request being handled, <<>> when idle
    loc,        \* per thread: the handler's locals and what it has done so far
    resp        \* per thread: the response, <<>> until the handler returns

vars == <<model, loads, load_failed, exists, artifact, client, pcMain, pc, req, loc, resp>>

KerasPath == "models/height_weight_model.keras"
H5Path == "models/height_weight_model.h5"
Paths == {KerasPath, H5Path}

InputShapes ==
    {<<"input_layer">>, <<"front_input", "side_input">>, <<"side_input", "front_input">>,
     <<"image_input">>, <<"input_a", "input_b">>, <<"front_input", "side_input", "height_input">>,
     <<"front_image", "side_image", "height">>}

AcceptModes == {"covering", "any", "only_input_layer", "none"}

OutKinds ==
    {"list2", "list3", "list1", "list2_flat", "dict", "dict_other_keys",
     "dict_height_only", "dict_extra_key", "array12", "array11"}

FixedHeights == {0, 95, 99, 100, 165, 220, 221}

\* The artifacts a deployment may hold: every input shape under every engine
\* behaviour, every output structure, and fixed heights around the bounds
\* the extraction and the adjustment test.
Artifacts ==
    [inputs : InputShapes, accepts : AcceptModes, out : {"list2"}, fixed : {<<>>}]
      \cup [inputs : {<<"input_layer">>, <<"front_input", "side_input">>},
            accepts : {"covering"}, out : OutKinds, fixed : {<<>>}]
      \cup [inputs : {<<"input_layer">>}, accepts : {"covering"},
            out : {"list2", "array11"}, fixed : {<<v>> : v \in FixedHeights}]

\* Overlapping clients send well-formed requests only.
OverlappingRequests ==
    {r \in Requests :
        /\ r.height = <<>>
        /\ \A f \in {r.front_image, r.side_image, r.image} :
              f = <<>> \/ (f[1].filename # "" /\ f[1].data = 1)
        /\ Validate(r).ok}

OverlappingArtifacts ==
    [inputs : {<<"input_layer">>}, accepts : {"covering"}, out : {"list2"}, fixed : {<<>>}]

Workload == IF client = "sequential" THEN Requests ELSE OverlappingRequests

NoLocals ==
    [user_height |-> <<>>, tensors |-> <<>>, actual_path |-> "", loaded_model |-> <<>>,
     decodes |-> 0, load_calls |-> 0, loaded |-> FALSE, calls |-> <<>>,
     predictions |-> <<>>, extracted |-> <<>>]

TypeOK ==
    /\ model = <<>> \/ (Len(model) = 1 /\ model[1].path \in Paths /\ model[1].id \in 1..loads)
    /\ loads \in 0..NumThreads + 1
    /\ load_failed \in BOOLEAN
    /\ exists \in [Paths -> BOOLEAN]
    /\ artifact \in Artifacts
    /\ client \in {"sequential", "overlapping"}
    /\ pcMain \in {"start", "serving"}
    /\ pc \in [Threads -> {"idle", "load", "loading", "infer", "done"}]
    /\ \A t \in Threads : (pc[t] = "idle") = (req[t] = <<>>)
    /\ \A t \in Threads : (pc[t] = "done") = (resp[t] # <<>>)

InitCommon ==
    /\ model = <<>>
    /\ loads = 0
    /\ load_failed = FALSE
    /\ exists \in [Paths -> BOOLEAN]
    /\ pcMain = "start"
    /\ pc = [t \in Threads |-> "idle"]
    /\ req = [t \in Threads |-> <<>>]
    /\ loc = [t \in Threads |-> NoLocals]
    /\ resp = [t \in Threads |-> <<>>]

\* Requests arrive one at a time; any artifact, any request.
Init ==
    /\ InitCommon
    /\ client = "sequential"
    /\ artifact \in Artifacts

\* Requests overlap in the threads of the server.
InitOverlapping ==
    /\ InitCommon
    /\ client = "overlapping"
    /\ artifact \in OverlappingArtifacts

(***************************************************************************)
(* load_model (lines 24-72).                                               *)
(***************************************************************************)
\* A variant that prefers the .h5 file.
ChoosePathH5First(ex) ==
    IF ex[H5Path] THEN Ok(H5Path)
    ELSE IF ex[KerasPath] THEN Ok(KerasPath)
    ELSE Raise("FileNotFoundError",
               "Model file not found at models/height_weight_model.keras or models/height_weight_model.h5")

\* Lines 32-41: the path load_model picks, or its FileNotFoundError.
ChoosePath(ex) ==
    IF ex[KerasPath] THEN Ok(KerasPath)
    ELSE IF ex[H5Path] THEN Ok(H5Path)
    ELSE Raise("FileNotFoundError",
               "Model file not found at models/height_weight_model.keras or models/height_weight_model.h5")

Handle(id, path) == [id |-> id, path |-> path]

\* A variant that remembers a failed load and does not try again.
NeedsLoadUnlessFailed(m) == m = <<>> /\ ~load_failed

\* Line 26: whether load_model enters its loading branch.
NeedsLoad(m) == m = <<>>

\* Lines 498-506: the __main__ block calls load_model before the server
\* starts and carries on whatever it raises.  tf's load may fail on a file
\* that exists (lines 53-57: both attempts raise).
PreloadModel ==
    /\ pcMain = "start"
    /\ \E tfLoads \in BOOLEAN :
          LET path == ChoosePath(exists)
          IN  IF path.ok /\ tfLoads
              THEN /\ model' = <<Handle(loads + 1, path.v)>>
                   /\ loads' = loads + 1
                   /\ UNCHANGED load_failed
              ELSE /\ load_failed' = TRUE
                   /\ UNCHANGED <<model, loads>>
    /\ pcMain' = "serving"
    /\ UNCHANGED <<exists, artifact, client, pc, req, loc, resp>>

\* The module is imported by a WSGI server: the __main__ block does not run.
StartImported ==
    /\ pcMain = "start"
    /\ pcMain' = "serving"
    /\ UNCHANGED <<model, loads, load_failed, exists, artifact, client, pc, req, loc, resp>>

\* A model file is put in place.
InstallArtifact(path) ==
    /\ ~exists[path]
    /\ exists' = [exists EXCEPT ![path] = TRUE]
    /\ UNCHANGED <<model, loads, load_failed, artifact, client, pcMain, pc, req, loc, resp>>

Finish(t, r, l) ==
    /\ pc' = [pc EXCEPT ![t] = "done"]
    /\ resp' = [resp EXCEPT ![t] = r]
    /\ loc' = [loc EXCEPT ![t] = l]

\* A request arrives and its handler runs up to the call of load_model:
\* the checks before the try block, reading the files, and
\* preprocess_uploaded_images.  Threads are taken in order.
Receive(t) ==
    /\ pcMain = "serving"
    /\ pc[t] = "idle"
    /\ \A u \in Threads : u < t => pc[u] # "idle"
    /\ client = "sequential" => \A u \in Threads : pc[u] = "idle"
    /\ \E r \in Workload :
          /\ req' = [req EXCEPT ![t] = <<r>>]
          /\ LET v == Validate(r)
                 front == IF r.endpoint = "predict" THEN r.front_image ELSE r.image
                 side == IF r.endpoint = "predict" THEN r.side_image ELSE r.image
             IN  IF ~v.ok
                 THEN Finish(t, ErrorResponse(400, v.msg), NoLocals)
                 ELSE LET pre == PreprocessUploadedImages(front[1].data, side[1].data)
                          l == [NoLocals EXCEPT !.user_height = v.v,
                                                !.decodes = pre.decodes]
                      IN  IF ~pre.res.ok
                          THEN Finish(t, ErrorResponse(500, pre.res.msg), l)
                          ELSE /\ pc' = [pc EXCEPT ![t] = "load"]
                               /\ loc' = [loc EXCEPT ![t] =
                                             [l EXCEPT !.tensors = <<pre.res.v>>]]
                               /\ UNCHANGED resp
    /\ UNCHANGED <<model, loads, load_failed, exists, artifact, client, pcMain>>

\* load_model up to the call of tf's loader: the test of the global and the
\* choice of the file.
LoadModelEnter(t) ==
    /\ pc[t] = "load"
    /\ LET l == [loc[t] EXCEPT !.load_calls = 1]
       IN  IF ~NeedsLoad(model)
           THEN /\ pc' = [pc EXCEPT ![t] = "infer"]
                /\ loc' = [loc EXCEPT ![t] = [l EXCEPT !.loaded_model = model]]
                /\ UNCHANGED resp
           ELSE LET path == ChoosePath(exists)
                IN  IF ~path.ok
                    THEN Finish(t, ErrorResponse(500, path.msg), l)
                    ELSE /\ pc' = [pc EXCEPT ![t] = "loading"]
                         /\ loc' = [loc EXCEPT ![t] = [l EXCEPT !.actual_path = path.v]]
                         /\ UNCHANGED resp
    /\ load_failed' = (load_failed \/ (NeedsLoad(model) /\ ~ChoosePath(exists).ok))
    /\ UNCHANGED <<model, loads, exists, artifact, client, pcMain, req>>

\* tf's loader returns (at the first attempt or at the second, compile=False)
\* and the global is assigned, or both attempts raise and the exception
\* leaves load_model.
LoadModelFinish(t, tfLoads) ==
    /\ pc[t] = "loading"
    /\ IF tfLoads
       THEN LET h == Handle(loads + 1, loc[t].actual_path)
            IN  /\ model' = <<h>>
                /\ loads' = loads + 1
                /\ pc' = [pc EXCEPT ![t] = "infer"]
                /\ loc' = [loc EXCEPT ![t] = [@ EXCEPT !.loaded_model = <<h>>, !.loaded = TRUE]]
                /\ UNCHANGED resp
       ELSE /\ Finish(t, ErrorResponse(500, "model file could not be loaded"), loc[t])
            /\ UNCHANGED <<model, loads>>
    /\ load_failed' = (load_failed \/ ~tfLoads)
    /\ UNCHANGED <<exists, artifact, client, pcMain, req>>

\* The rest of the handler: binding, invocation, extraction, adjustment.
Infer(t) ==
    /\ pc[t] = "infer"
    /\ LET r == req[t][1]
           l == loc[t]
           out == HandleInference(artifact, r.endpoint, l.user_height,
                                  l.tensors[1].front, l.tensors[1].side)
       IN  Finish(t, out.resp, [l EXCEPT !.calls = out.calls, !.predictions = out.raw,
                                         !.extracted = out.extracted])
    /\ UNCHANGED <<model, loads, load_failed, exists, artifact, client, pcMain, req>>

\* The response is sent and the thread is free again.
Reply(t) ==
    /\ pc[t] = "done"
    /\ pc' = [pc EXCEPT ![t] = "idle"]
    /\ req' = [req EXCEPT ![t] = <<>>]
    /\ loc' = [loc EXCEPT ![t] = NoLocals]
    /\ resp' = [resp EXCEPT ![t] = <<>>]
    /\ UNCHANGED <<model, loads, load_failed, exists, artifact, client, pcMain>>

Next ==
    \/ PreloadModel
    \/ StartImported
    \/ \E path \in Paths : InstallArtifact(path)
    \/ \E t \in Threads : Receive(t)
    \/ \E t \in Threads : LoadModelEnter(t)
    \/ \E t \in Threads, tfLoads \in BOOLEAN : LoadModelFinish(t, tfLoads)
    \/ \E t \in Threads : Infer(t)
    \/ \E t \in Threads : Reply(t)

Spec == Init /\ [][Next]_vars

SpecOverlapping == InitOverlapping /\ [][Next]_vars

(***************************************************************************)
(* Properties.                                                             *)
(***************************************************************************)
Done(t) == pc[t] = "done"
Request(t) == req[t][1]
Succeeded(t) == Done(t) /\ resp[t].status = 200

\* The height text of a request read as a number.
GivenHeight(r) == ParseFloat(r.height[1]).v

\* C1: however the first requests against an unset handle interleave, at most
\* one load is executed and every request works with the handle of that load.
C1_SingleFlightLoad ==
    /\ loads <= 1
    /\ \A t, u \in Threads :
          loc[t].loaded_model # <<>> /\ loc[u].loaded_model # <<>>
             => loc[t].loaded_model = loc[u].loaded_model

\* C2: once a call of load_model has succeeded the handle is never reassigned
\* or cleared and no further load succeeds, and a call of load_model that
\* finds the handle set returns it without loading.
C2_LoadedOnceThenCached ==
    [][/\ model # <<>> => (model' = model /\ loads' = loads)
       /\ loads' <= 1
       /\ \A t \in Threads :
             (pc[t] = "load" /\ pc'[t] # "load" /\ model # <<>>)
                => /\ pc'[t] = "infer"
                   /\ loc'[t].loaded_model = model
                   /\ ~loc'[t].loaded]_vars

\* C3: load_model picks the .keras file when it exists, else the .h5 file
\* when it exists, and the file picked is the one loaded; when neither exists
\* the call fails (a 500 response for a request) and the handle stays unset.
C3_PrimaryThenSecondary ==
    [][/\ \A t \in Threads :
             (pc[t] = "load" /\ pc'[t] # "load" /\ model = <<>>)
                => IF exists[KerasPath]
                   THEN pc'[t] = "loading" /\ loc'[t].actual_path = KerasPath
                   ELSE IF exists[H5Path]
                   THEN pc'[t] = "loading" /\ loc'[t].actual_path = H5Path
                   ELSE /\ pc'[t] = "done"
                        /\ resp'[t].status = 500
                        /\ model' = <<>>
       /\ \A t \in Threads :
             (pc[t] = "loading" /\ model' # model)
                => model'[1].path = loc[t].actual_path
       /\ (pcMain = "start" /\ model' # model)
             => model'[1].path = IF exists[KerasPath] THEN KerasPath ELSE H5Path
       /\ (pcMain = "start" /\ ~exists[KerasPath] /\ ~exists[H5Path])
             => model' = <<>>]_vars

\* C3 witness: a request loaded the .h5 file, the .keras file being absent.
C3_Witness ==
    \E t \in Threads :
        /\ loc[t].loaded
        /\ model # <<>>
        /\ model[1].path = H5Path
        /\ ~exists[KerasPath]

\* A height field that parses as a number h with 0 < h <= 300.
AcceptableHeight(field) ==
    LET p == ParseFloat(field[1])
    IN  p.ok /\ GtF(p.v, Num(0)) /\ LeqF(p.v, Num(300))

\* C4: a request with a height field is answered with 400 unless the field
\* parses as a number h with 0 < h <= 300, whatever its images are.
C4_BadHeightRejected ==
    \A t \in Threads :
        (Done(t) /\ Request(t).height # <<>> /\ ~AcceptableHeight(Request(t).height))
           => resp[t].status = 400

\* A height field that is unparsable, not positive, or above 300.
RejectedHeight(field) ==
    /\ field # <<>>
    /\ LET p == ParseFloat(field[1])
       IN  ~p.ok \/ LeqF(p.v, Num(0)) \/ GtF(p.v, Num(300))

MissingOrUnnamed(field) == field = <<>> \/ field[1].filename = ""

FailsValidation(r) ==
    \/ RejectedHeight(r.height)
    \/ r.endpoint = "predict"
          /\ (MissingOrUnnamed(r.front_image) \/ MissingOrUnnamed(r.side_image))
    \/ r.endpoint = "predict_single" /\ MissingOrUnnamed(r.image)

\* C5: a request with a missing image field, an empty filename or a rejected
\* height is answered with 400, and a 400 response carries only an error
\* message and is given before any image is decoded, load_model is called or
\* the engine is invoked.
C5_ValidationBeforeWork ==
    \A t \in Threads :
        Done(t) =>
            /\ FailsValidation(Request(t)) => resp[t].status = 400
            /\ resp[t].status = 400 =>
                  /\ DOMAIN resp[t].body = {"error"}
                  /\ resp[t].body.error # ""
                  /\ loc[t].decodes = 0
                  /\ loc[t].load_calls = 0
                  /\ ~loc[t].loaded
                  /\ loc[t].loaded_model = <<>>
                  /\ loc[t].calls = <<>>

\* C5 witness: a request with two decodable, named images and the height 0
\* was answered with 400.
C5_Witness ==
    \E t \in Threads :
        /\ Done(t)
        /\ resp[t].status = 400
        /\ Request(t).endpoint = "predict"
        /\ Request(t).height = <<"0">>
        /\ ~MissingOrUnnamed(Request(t).front_image)
        /\ ~MissingOrUnnamed(Request(t).side_image)
        /\ Request(t).front_image[1].data \in Images
        /\ Request(t).side_image[1].data \in Images

\* C6: the confidence of a 200 response is 0.92 or 0.90 for /predict and 0.80
\* or 0.75 for /predict_single, the higher value when a height was supplied.
C6_ConfidenceTable ==
    \A t \in Threads :
        Succeeded(t) =>
            resp[t].body.confidence =
                CASE Request(t).endpoint = "predict" /\ Request(t).height # <<>> -> Fin(92, 100)
                  [] Request(t).endpoint = "predict" /\ Request(t).height = <<>> -> Fin(90, 100)
                  [] Request(t).endpoint = "predict_single" /\ Request(t).height # <<>> -> Fin(80, 100)
                  [] Request(t).endpoint = "predict_single" /\ Request(t).height = <<>> -> Fin(75, 100)

\* C6 witness: /predict answered 200 to a request with a height, the engine
\* having returned a single value.
C6_Witness ==
    \E t \in Threads :
        /\ Succeeded(t)
        /\ Request(t).endpoint = "predict"
        /\ Request(t).height # <<>>
        /\ artifact.out = "array11"

\* C7: in a 200 response predicted_height is the height extracted from the
\* engine output, and height is the user's height when one was supplied and
\* predicted_height otherwise.
C7_PredictedHeightSurfaced ==
    \A t \in Threads :
        Succeeded(t) =>
            /\ loc[t].extracted # <<>>
            /\ resp[t].body.predicted_height = loc[t].extracted[1].predicted_height
            /\ resp[t].body.height =
                  IF Request(t).height # <<>> THEN GivenHeight(Request(t))
                  ELSE resp[t].body.predicted_height

\* C7 witness: a 200 response whose height is the user's and differs from
\* the predicted height.
C7_Witness ==
    \E t \in Threads :
        /\ Succeeded(t)
        /\ Request(t).height # <<>>
        /\ resp[t].body.height # resp[t].body.predicted_height

\* C8: for a user height h in (0, 300] and a predicted height above zero, the
\* weight of the response is predicted_weight * (h / predicted_height)^2.
C8_WeightScaledBySquare ==
    \A t \in Threads :
        (/\ Succeeded(t)
         /\ Request(t).height # <<>>
         /\ AcceptableHeight(Request(t).height)
         /\ GtF(loc[t].extracted[1].predicted_height, Num(0)))
           => LET h == GivenHeight(Request(t))
                  e == loc[t].extracted[1]
              IN  MulF(resp[t].body.weight, MulF(e.predicted_height, e.predicted_height))
                     = MulF(e.predicted_weight, MulF(h, h))

\* C8 witness: a weight was rescaled by a user height that differs from the
\* predicted height.
C8_Witness ==
    \E t \in Threads :
        /\ Succeeded(t)
        /\ Request(t).height = <<"150">>
        /\ GtF(loc[t].extracted[1].predicted_height, Num(0))
        /\ loc[t].extracted[1].predicted_height # Num(150)
        /\ resp[t].body.weight # loc[t].extracted[1].predicted_weight

\* C9: once a height and a weight are extracted the request ends in 200; with
\* a predicted height of zero, or without a user height, the weight of the
\* response is the predicted weight.
C9_AdjustmentNeverFails ==
    \A t \in Threads :
        (Done(t) /\ loc[t].extracted # <<>>) =>
            /\ resp[t].status = 200
            /\ Request(t).height = <<>>
                  => resp[t].body.weight = loc[t].extracted[1].predicted_weight
            /\ IsZero(loc[t].extracted[1].predicted_height)
                  => resp[t].body.weight = loc[t].extracted[1].predicted_weight

\* C9 witness: a request with a user height whose predicted height was zero
\* ended in 200.
C9_Witness ==
    \E t \in Threads :
        /\ Succeeded(t)
        /\ Request(t).height = <<"150">>
        /\ IsZero(loc[t].extracted[1].predicted_height)

\* The preprocessed tensor of a decodable image.
TensorOf(data) == Tensor(ImDecode(data).v[1])

\* C10: on a model whose one input slot is named input_layer, /predict
\* invokes the engine with the front tensor only, and the response is the
\* one any other decodable side image would have produced.
C10_SideImageIgnored ==
    \A t \in Threads :
        (/\ Done(t)
         /\ Request(t).endpoint = "predict"
         /\ artifact.inputs = <<"input_layer">>
         /\ loc[t].loaded_model # <<>>)
           => LET front == loc[t].tensors[1].front
              IN  /\ loc[t].calls # <<>>
                  /\ \A i \in 1..Len(loc[t].calls) :
                        loc[t].calls[i].tensors = <<TensorOf(Request(t).front_image[1].data)>>
                  /\ \A other \in Images :
                        HandleInference(artifact, "predict", loc[t].user_height,
                                        front, TensorOf(other)).resp = resp[t]

\* C10 witness: /predict answered 200 on such a model to a request whose
\* side image differs from its front image.
C10_Witness ==
    \E t \in Threads :
        /\ Succeeded(t)
        /\ Request(t).endpoint = "predict"
        /\ artifact.inputs = <<"input_layer">>
        /\ Request(t).front_image[1].data # Request(t).side_image[1].data

\* The bytes a handler passes to preprocess_uploaded_images as front and side.
FrontData(r) == IF r.endpoint = "predict" THEN r.front_image[1].data ELSE r.image[1].data
SideData(r) == IF r.endpoint = "predict" THEN r.side_image[1].data ELSE r.image[1].data

\* A request whose engine was reached: it passed validation, its images were
\* decoded and a model handle was obtained.
Inferred(t) == Done(t) /\ loc[t].loaded_model # <<>>

\* The tensor a dict binding feeds the slot of the given name.
BoundTo(b, slot) == b.tensors[CHOOSE i \in 1..Len(b.slots) : b.slots[i] = slot]

FrontSideModel(art) ==
    Len(art.inputs) = 2 /\ Range(art.inputs) = {"front_input", "side_input"}

\* C11: on a model whose two input slots are front_input and side_input, in
\* either declared order, the engine is first invoked with the front tensor
\* under front_input and the side tensor under side_input, and the same
\* request with its two uploads exchanged binds the same slots with the two
\* tensors exchanged.
C11_FrontSideByName ==
    \A t \in Threads :
        (Inferred(t) /\ FrontSideModel(artifact)) =>
            /\ loc[t].calls # <<>>
            /\ LET r == Request(t)
                   b == loc[t].calls[1]
                   swapped == SelectBinding(r.endpoint, artifact.inputs,
                                            TensorOf(SideData(r)), TensorOf(FrontData(r)))
               IN  /\ b.form = "dict"
                   /\ Len(b.slots) = 2
                   /\ Range(b.slots) = {"front_input", "side_input"}
                   /\ BoundTo(b, "front_input") = TensorOf(FrontData(r))
                   /\ BoundTo(b, "side_input") = TensorOf(SideData(r))
                   /\ swapped.ok
                   /\ swapped.v.form = "dict"
                   /\ swapped.v.slots = b.slots
                   /\ BoundTo(swapped.v, "front_input") = BoundTo(b, "side_input")
                   /\ BoundTo(swapped.v, "side_input") = BoundTo(b, "front_input")

\* C11 witness: /predict answered 200 on a model that declares side_input
\* before front_input, to a request whose two images differ.
C11_Witness ==
    \E t \in Threads :
        /\ Succeeded(t)
        /\ Request(t).endpoint = "predict"
        /\ artifact.inputs = <<"side_input", "front_input">>
        /\ FrontData(Request(t)) # SideData(Request(t))
        /\ BoundTo(loc[t].calls[1], "side_input") = TensorOf(SideData(Request(t)))

\* C12: when the engine raises under the selected binding it is invoked once
\* more, with the front tensor under input_layer; the output of a retry that
\* succeeds is the one extraction works on, and when the retry raises too the
\* response is 500 with the message of the first error.  The engine is
\* invoked at most twice, and once when the first invocation succeeds.
C12_SingleRetryKeepsFirstError ==
    \A t \in Threads :
        Inferred(t) =>
            LET r == Request(t)
                front == TensorOf(FrontData(r))
                calls == loc[t].calls
                sel == SelectBinding(r.endpoint, artifact.inputs, front, TensorOf(SideData(r)))
                retry == EnginePredict(artifact, DictBinding(<<"input_layer">>, <<front>>))
            IN  /\ Len(calls) <= 2
                /\ sel.ok =>
                      /\ Len(calls) >= 1
                      /\ calls[1] = sel.v
                      /\ LET first == EnginePredict(artifact, calls[1])
                         IN  IF first.ok
                             THEN Len(calls) = 1 /\ loc[t].predictions = <<first.v>>
                             ELSE /\ Len(calls) = 2
                                  /\ calls[2] = DictBinding(<<"input_layer">>, <<front>>)
                                  /\ IF retry.ok
                                     THEN loc[t].predictions = <<retry.v>>
                                     ELSE /\ loc[t].predictions = <<>>
                                          /\ resp[t] = ErrorResponse(500, first.msg)

\* C12 witness: both invocations raised, with different messages, and the
\* response is 500.
C12_Witness ==
    \E t \in Threads :
        /\ Inferred(t)
        /\ resp[t].status = 500
        /\ Len(loc[t].calls) = 2
        /\ ~EnginePredict(artifact, loc[t].calls[1]).ok
        /\ ~EnginePredict(artifact, loc[t].calls[2]).ok
        /\ EnginePredict(artifact, loc[t].calls[1]).msg
              # EnginePredict(artifact, loc[t].calls[2]).msg

\* The flat sequence tf.nest.flatten makes of an output that is no list and
\* that the dictionary format did not fit; <<>> when extraction does not
\* get to flatten the output.
FlatEntries(p) ==
    IF p.ty # "list" /\ ~ExtractStandard(p).ok THEN Flatten(p) ELSE <<>>

Numeric(v) == ToFloat(v).ok

\* C13: an output that flattens to one numeric entry v is extracted as height
\* v and weight (v - 100) * 0.9 when 100 <= v <= 220, and as weight v and
\* height 170 otherwise; an output that flattens to two or more numeric
\* entries is extracted as height entry 0 and weight entry 1.
C13_SingleValueHeuristic ==
    \A t \in Threads :
        (Inferred(t) /\ loc[t].predictions # <<>>) =>
            LET flat == FlatEntries(loc[t].predictions[1])
            IN  /\ (Len(flat) = 1 /\ Numeric(flat[1])) =>
                      LET v == ToFloat(flat[1]).v
                      IN  loc[t].extracted =
                            IF LeqF(Num(100), v) /\ LeqF(v, Num(220))
                            THEN <<[predicted_height |-> v,
                                    predicted_weight |-> MulF(SubF(v, Num(100)), Fin(9, 10))]>>
                            ELSE <<[predicted_height |-> Num(170), predicted_weight |-> v]>>
                /\ (Len(flat) >= 2 /\ Numeric(flat[1]) /\ Numeric(flat[2])) =>
                      loc[t].extracted =
                         <<[predicted_height |-> ToFloat(flat[1]).v,
                            predicted_weight |-> ToFloat(flat[2]).v]>>

\* C13 witness: the single value 220 was extracted as the height 220 with
\* the weight 108.
C13_Witness ==
    \E t \in Threads :
        /\ Succeeded(t)
        /\ Len(FlatEntries(loc[t].predictions[1])) = 1
        /\ ToFloat(FlatEntries(loc[t].predictions[1])[1]) = Ok(Num(220))
        /\ loc[t].extracted = <<[predicted_height |-> Num(220), predicted_weight |-> Num(108)]>>

\* Bytes cv2.imdecode makes no image of: an empty buffer, or no image format.
Undecodable(data) == data \in {EmptyData, CorruptData}

\* C14: a request that passes validation and whose front or side bytes (for
\* /predict_single, whose image bytes) cannot be decoded ends in 500 with a
\* body that holds a non-empty error message and nothing else.
C14_UndecodableImageIs500 ==
    \A t \in Threads :
        (/\ Done(t)
         /\ ~FailsValidation(Request(t))
         /\ Undecodable(FrontData(Request(t))) \/ Undecodable(SideData(Request(t))))
           => /\ resp[t].status = 500
              /\ DOMAIN resp[t].body = {"error"}
              /\ resp[t].body.error # ""

\* C14 witness: /predict answered 500 to a request whose front image decodes
\* and whose side bytes are no image, the model file being in place.
C14_Witness ==
    \E t \in Threads :
        /\ Done(t)
        /\ resp[t].status = 500
        /\ Request(t).endpoint = "predict"
        /\ ~FailsValidation(Request(t))
        /\ FrontData(Request(t)) \in Images
        /\ SideData(Request(t)) = CorruptData
        /\ loc[t].decodes = 2
        /\ exists[KerasPath]

\* The /predict request that uploads the image of a /predict_single request
\* as both its front and its side image.
AsPredict(r) ==
    [endpoint |-> "predict", front_image |-> r.image, side_image |-> r.image,
     image |-> NoFile, height |-> r.height]

\* C15: a /predict_single request is validated, bound, run and answered as
\* the /predict request with front_image = side_image = its image: the same
\* acceptance, the same engine invocations, the same status, and in a 200
\* response the same height, weight and predicted_height, the confidence
\* being that of the single-image tier.
C15_SingleIsPredictOfSameImage ==
    \A t \in Threads :
        (Done(t) /\ Request(t).endpoint = "predict_single") =>
            LET r == Request(t)
                twin == AsPredict(r)
            IN  /\ Validate(twin).ok = (resp[t].status # 400)
                /\ Validate(twin).ok => Validate(twin).v = loc[t].user_height
                /\ (Validate(twin).ok /\ loc[t].load_calls = 0) =>
                      /\ ~PreprocessUploadedImages(FrontData(twin), SideData(twin)).res.ok
                      /\ resp[t].status = 500
                /\ Inferred(t) =>
                      LET pre == PreprocessUploadedImages(FrontData(twin), SideData(twin)).res.v
                          out == HandleInference(artifact, "predict", Validate(twin).v,
                                                 pre.front, pre.side)
                      IN  /\ out.calls = loc[t].calls
                          /\ out.resp.status = resp[t].status
                          /\ resp[t].status = 200 =>
                                /\ out.resp.body.height = resp[t].body.height
                                /\ out.resp.body.weight = resp[t].body.weight
                                /\ out.resp.body.predicted_height = resp[t].body.predicted_height
                                /\ resp[t].body.confidence \in {Fin(80, 100), Fin(75, 100)}
                                /\ out.resp.body.confidence # resp[t].body.confidence

\* C15 witness: /predict_single answered 200 on a model with one input slot
\* of another name than input_layer.
C15_Witness ==
    \E t \in Threads :
        /\ Succeeded(t)
        /\ Request(t).endpoint = "predict_single"
        /\ artifact.inputs = <<"image_input">>
        /\ loc[t].calls = <<DictBinding(<<"image_input">>, <<TensorOf(Request(t).image[1].data)>>)>>

\* The number of tensors a binding holds: one per key of a dict, one per
\* element of a list, one for a bare array.
TensorCount(b) == IF b.form = "dict" THEN Cardinality(Range(b.slots)) ELSE Len(b.tensors)

\* Whether a binding can hold a tensor for every input slot the model
\* declares: it holds at least as many tensors as there are slots.
SuppliesEverySlot(art, b) == TensorCount(b) >= Len(art.inputs)

\* C16: every binding the engine is invoked with, the last resort included,
\* holds a tensor for every input slot the loaded model declares.
C16_NoPartialBinding ==
    \A t \in Threads :
        Inferred(t) =>
            \A i \in 1..Len(loc[t].calls) : SuppliesEverySlot(artifact, loc[t].calls[i])

\* C17: on a model whose one input slot is not named input_layer, /predict
\* with two different images invokes the engine with the concatenation of
\* the front and the side tensor under that slot.
C17_SingleSlotGetsConcatenation ==
    \A t \in Threads :
        (/\ Inferred(t)
         /\ Request(t).endpoint = "predict"
         /\ Len(artifact.inputs) = 1
         /\ artifact.inputs[1] # "input_layer"
         /\ FrontData(Request(t)) # SideData(Request(t)))
           => /\ loc[t].calls # <<>>
              /\ loc[t].calls[1] =
                    DictBinding(<<artifact.inputs[1]>>,
                                <<Concatenate(TensorOf(FrontData(Request(t))),
                                              TensorOf(SideData(Request(t))))>>)

\* No rule of the ladder that goes by slot names applies.
NoNameRule(names) ==
    /\ ~(Len(names) = 1 /\ Contains(names, "input_layer"))
    /\ ~(Contains(names, "front_input") /\ Contains(names, "side_input"))

\* C18: when no rule by name applies, a model with one slot is invoked with
\* the front tensor alone, a model with two slots with the list [front,
\* side], and on a model with any other number of slots the request ends in
\* 500 with the binding error, never in 200.
C18_FallbackBySlotCount ==
    \A t \in Threads :
        (Inferred(t) /\ NoNameRule(artifact.inputs)) =>
            LET front == TensorOf(FrontData(Request(t)))
                side == TensorOf(SideData(Request(t)))
                n == Len(artifact.inputs)
            IN  /\ n = 1 => /\ loc[t].calls # <<>>
                            /\ loc[t].calls[1].tensors = <<front>>
                /\ n = 2 => /\ loc[t].calls # <<>>
                            /\ loc[t].calls[1] = Binding("list", <<>>, <<front, side>>)
                /\ n \notin {1, 2} =>
                      /\ resp[t] = ErrorResponse(500, "Unsupported number of inputs")
                      /\ loc[t].predictions = <<>>

\* C18 witness: /predict answered 500 on a model that declares the three
\* slots front_image, side_image and height.
C18_Witness ==
    \E t \in Threads :
        /\ Inferred(t)
        /\ Request(t).endpoint = "predict"
        /\ artifact.inputs = <<"front_image", "side_image", "height">>
        /\ artifact.accepts = "any"
        /\ resp[t].status = 500
        /\ resp[t].body.error = "Unsupported number of inputs"

\* C19: a list output of two numeric elements is extracted as height element
\* 0 and weight element 1, and a dict output with the keys height and weight
\* as the values under those keys, whatever other keys it holds and whatever
\* flattening it would give.
C19_ListThenDictFormat ==
    \A t \in Threads :
        (Inferred(t) /\ loc[t].predictions # <<>>) =>
            LET p == loc[t].predictions[1]
            IN  /\ (p.ty = "list" /\ Len(p.xs) = 2 /\ Numeric(p.xs[1]) /\ Numeric(p.xs[2])) =>
                      loc[t].extracted =
                         <<[predicted_height |-> ToFloat(p.xs[1]).v,
                            predicted_weight |-> ToFloat(p.xs[2]).v]>>
                /\ (p.ty = "dict" /\ Contains(p.ks, "height") /\ Contains(p.ks, "weight")) =>
                      LET h == p.xs[CHOOSE i \in 1..Len(p.ks) : p.ks[i] = "height"]
                          w == p.xs[CHOOSE i \in 1..Len(p.ks) : p.ks[i] = "weight"]
                      IN  (Numeric(h) /\ Numeric(w)) =>
                             loc[t].extracted =
                                <<[predicted_height |-> ToFloat(h).v,
                                   predicted_weight |-> ToFloat(w).v]>>

\* C19 witness: a dict output whose first key in sorted order is neither
\* height nor weight was extracted by its height and weight keys.
C19_Witness ==
    \E t \in Threads :
        /\ Succeeded(t)
        /\ loc[t].predictions[1].ty = "dict"
        /\ loc[t].predictions[1].ks = <<"age", "height", "weight">>
        /\ loc[t].extracted[1].predicted_height = ToFloat(loc[t].predictions[1].xs[2]).v
        /\ loc[t].extracted[1].predicted_height # ToFloat(loc[t].predictions[1].xs[1]).v

\* Whether an output holds a number somewhere.
RECURSIVE HasNumber(_)
HasNumber(v) ==
    IF v.ty = "num" THEN TRUE ELSE \E i \in 1..Len(v.xs) : HasNumber(v.xs[i])

\* C20: whenever the engine output holds a number, a list of fewer than two
\* elements and a dict without the height or the weight key included, a
\* height and a weight are extracted and the request ends in 200.
C20_RecoverableOutputIs200 ==
    \A t \in Threads :
        (Inferred(t) /\ loc[t].predictions # <<>> /\ HasNumber(loc[t].predictions[1])) =>
            /\ loc[t].extracted # <<>>
            /\ resp[t].status = 200

\* A request that passes validation and whose front or side bytes do not decode.
UndecodableRequest(r) ==
    /\ ~FailsValidation(r)
    /\ Undecodable(FrontData(r)) \/ Undecodable(SideData(r))

\* C21: a handler decodes both images before it calls load_model and calls
\* load_model before it invokes the engine; a request whose bytes do not
\* decode never calls load_model and never invokes the engine, and the step
\* that handles it leaves the model handle and the number of loads as they
\* were.
C21_DecodeBeforeLoadBeforeEngine ==
    [][\A t \in Threads :
          /\ loc'[t].load_calls > 0 => loc'[t].decodes = 2 /\ loc'[t].tensors # <<>>
          /\ loc'[t].calls # <<>> => loc'[t].load_calls = 1 /\ loc'[t].loaded_model # <<>>
          /\ (req'[t] # <<>> /\ UndecodableRequest(req'[t][1])) =>
                /\ pc'[t] = "done"
                /\ loc'[t].load_calls = 0
                /\ ~loc'[t].loaded
                /\ loc'[t].loaded_model = <<>>
                /\ loc'[t].calls = <<>>
                /\ model' = model
                /\ loads' = loads]_vars

\* C21 witness: a request whose side bytes are no image was answered while
\* the handle was unset and a model file was in place, and the handle is
\* still unset.
C21_Witness ==
    \E t \in Threads :
        /\ Done(t)
        /\ UndecodableRequest(Request(t))
        /\ SideData(Request(t)) = CorruptData
        /\ FrontData(Request(t)) \in Images
        /\ exists[H5Path]
        /\ model = <<>>
        /\ loc[t].load_calls = 0

\* C22: a call of load_model that raises ends its request in 500 and leaves
\* the handle unset; the failure is not remembered: a later call that finds
\* the handle unset looks for the files again, fails again while neither is
\* there, and once a file is in place loads it, sets the handle and lets the
\* request go on with it.  A failed pre-load is followed by the server
\* serving requests.
C22_FailedLoadNotCached ==
    [][/\ \A t \in Threads :
             /\ (pc[t] \in {"load", "loading"} /\ pc'[t] = "done") =>
                   /\ resp'[t].status = 500
                   /\ model' = <<>>
                   /\ loads' = loads
                   /\ load_failed'
             /\ (load_failed /\ model = <<>> /\ pc[t] = "load" /\ pc'[t] # "load") =>
                   IF exists[KerasPath] \/ exists[H5Path]
                   THEN /\ pc'[t] = "loading"
                        /\ loc'[t].actual_path \in {p \in Paths : exists[p]}
                   ELSE /\ pc'[t] = "done"
                        /\ resp'[t].status = 500
             /\ (load_failed /\ pc[t] = "loading" /\ pc'[t] # "loading") =>
                   \/ /\ pc'[t] = "infer"
                      /\ model' # <<>>
                      /\ loads' = loads + 1
                      /\ loc'[t].loaded_model = model'
                   \/ /\ pc'[t] = "done"
                      /\ resp'[t].status = 500
                      /\ model' = <<>>
       /\ (pcMain = "start" /\ ~load_failed /\ load_failed') =>
             /\ pcMain' = "serving"
             /\ model' = <<>>
       /\ (load_failed' /\ loads' = 0) => model' = <<>>]_vars

\* C22 witness: after a call of load_model had failed, a request loaded the
\* model and was answered 200.
C22_Witness ==
    \E t \in Threads :
        /\ load_failed
        /\ Succeeded(t)
        /\ loc[t].loaded
        /\ loads = 1
        /\ model = loc[t].loaded_model

=============================================================================
